---- MODULE Spec2Model ----
(***************************************************************************)
(* The two GOES-16 notebooks: opencontrails/notebooks/load_tfrecords.ipynb *)
(* (the TFRecord notebook) and the raw-GOES notebook (src/unnamed/part_000).*)
(*                                                                         *)
(* Floating-point numbers are modelled as exact rationals n/d in lowest    *)
(* terms, extended with the IEEE-754 specials the numpy operations of the  *)
(* notebooks produce and propagate: NaN, +inf and -inf.  Arrays are        *)
(* sequences of such numbers; every numpy operation used by the notebooks  *)
(* is elementwise.                                                         *)
(***************************************************************************)
EXTENDS Integers, Sequences, FiniteSets, TLC

(***************************************************************************)
(* Bounds of the model.                                                    *)
(***************************************************************************)
\* Largest number of pixels of an array handed to the two pure functions.
MaxPix == 1
\* Largest number of records of the TFRecord dataset.
MaxRecords == 11

(***************************************************************************)
(* Numbers.                                                                *)
(***************************************************************************)
Abs(i) == IF i < 0 THEN -i ELSE i

RECURSIVE Gcd(_, _)
Gcd(a, b) == IF b = 0 THEN a ELSE Gcd(b, a % b)

\* The rational n/d (d # 0) in lowest terms with a positive denominator.
Rat(n, d) ==
  LET g == Gcd(Abs(n), Abs(d))
      s == IF d < 0 THEN -1 ELSE 1
  IN  [k |-> "fin", n |-> (s * n) \div g, d |-> (s * d) \div g]

Fin(i)  == [k |-> "fin", n |-> i, d |-> 1]
NaN     == [k |-> "nan", n |-> 0, d |-> 1]
PosInf  == [k |-> "inf", n |-> 1, d |-> 1]
NegInf  == [k |-> "inf", n |-> -1, d |-> 1]

Sign(x) == IF x.n > 0 THEN 1 ELSE IF x.n < 0 THEN -1 ELSE 0
Inf(s)  == IF s > 0 THEN PosInf ELSE NegInf

\* x - y on floats: NaN propagates, inf - inf is NaN.
FSub(x, y) ==
  IF x.k = "nan" \/ y.k = "nan" THEN NaN
  ELSE IF x.k = "inf" /\ y.k = "inf" THEN (IF x.n = y.n THEN NaN ELSE x)
  ELSE IF x.k = "inf" THEN x
  ELSE IF y.k = "inf" THEN Inf(-y.n)
  ELSE Rat(x.n * y.d - y.n * x.d, x.d * y.d)

\* x / y on numpy floats: NaN propagates, x/0 is +-inf or NaN (0/0), no exception.
FDiv(x, y) ==
  IF x.k = "nan" \/ y.k = "nan" THEN NaN
  ELSE IF x.k = "inf" /\ y.k = "inf" THEN NaN
  ELSE IF x.k = "inf" THEN Inf(x.n * (IF Sign(y) < 0 THEN -1 ELSE 1))
  ELSE IF y.k = "inf" THEN Fin(0)
  ELSE IF y.n = 0 THEN (IF x.n = 0 THEN NaN ELSE Inf(Sign(x)))
  ELSE Rat(x.n * y.d, x.d * y.n)

\* x < y on floats; every comparison with NaN is false.
FLt(x, y) ==
  /\ x.k # "nan"
  /\ y.k # "nan"
  /\ IF x.k = "inf" THEN x.n < 0 /\ y # x
     ELSE IF y.k = "inf" THEN y.n > 0
     ELSE x.n * y.d < y.n * x.d

\* np.clip on one element: minimum(maximum(x, lo), hi); NaN propagates.
Clip(x, lo, hi) ==
  IF x.k = "nan" THEN NaN
  ELSE IF FLt(x, Fin(lo)) THEN Fin(lo)
  ELSE IF FLt(Fin(hi), x) THEN Fin(hi)
  ELSE x

(***************************************************************************)
(* The false-colour cell of the TFRecord notebook.                         *)
(***************************************************************************)
_T11_BOUNDS == <<243, 303>>
_CLOUD_TOP_TDIFF_BOUNDS == <<-4, 5>>
_TDIFF_BOUNDS == <<-4, 2>>

\* a - b on arrays of one shape.
ArrSub(a, b) == [i \in DOMAIN a |-> FSub(a[i], b[i])]

\* np.stack([r, g, b], axis=-1): one (r, g, b) triple per pixel.
Stack(r, g, b) == [i \in DOMAIN r |-> <<r[i], g[i], b[i]>>]

\* np.clip(image, lo, hi) on a stacked image.
ClipImage(img, lo, hi) ==
  [i \in DOMAIN img |-> [c \in DOMAIN img[i] |-> Clip(img[i][c], lo, hi)]]

\* A faulty variant: the divisor is bounds[1] instead of the width of the range.
normalize_range_nosub(data, bounds) ==
  [i \in DOMAIN data |->
     FDiv(FSub(data[i], Fin(bounds[1])), Fin(bounds[2]))]

\* (data - bounds[0]) / (bounds[1] - bounds[0]); Python's bounds[0] is bounds[1] here.
normalize_range(data, bounds) ==
  [i \in DOMAIN data |->
     FDiv(FSub(data[i], Fin(bounds[1])), Fin(bounds[2] - bounds[1]))]

\* A faulty variant: the b channel is computed from a band difference.
channel_args_bdiff(bt) ==
  << [data |-> ArrSub(bt["data_12um"], bt["data_11um"]), bounds |-> _TDIFF_BOUNDS],
     [data |-> ArrSub(bt["data_11um"], bt["cloud_top"]), bounds |-> _CLOUD_TOP_TDIFF_BOUNDS],
     [data |-> ArrSub(bt["data_11um"], bt["cloud_top"]), bounds |-> _T11_BOUNDS] >>

\* A faulty variant: the r channel subtracts in the opposite order.
channel_args_swapped(bt) ==
  << [data |-> ArrSub(bt["data_11um"], bt["data_12um"]), bounds |-> _TDIFF_BOUNDS],
     [data |-> ArrSub(bt["data_11um"], bt["cloud_top"]), bounds |-> _CLOUD_TOP_TDIFF_BOUNDS],
     [data |-> bt["data_11um"], bounds |-> _T11_BOUNDS] >>

\* The arguments of the three normalize_range calls of false_color_image, in the
\* order r, g, b.
channel_args(bt) ==
  << [data |-> ArrSub(bt["data_12um"], bt["data_11um"]), bounds |-> _TDIFF_BOUNDS],
     [data |-> ArrSub(bt["data_11um"], bt["cloud_top"]), bounds |-> _CLOUD_TOP_TDIFF_BOUNDS],
     [data |-> bt["data_11um"], bounds |-> _T11_BOUNDS] >>

\* A faulty variant: the stacked channels are returned without np.clip.
false_color_image_noclip(brightness_temperatures) ==
  LET a == channel_args(brightness_temperatures)
  IN  Stack(normalize_range(a[1].data, a[1].bounds),
            normalize_range(a[2].data, a[2].bounds),
            normalize_range(a[3].data, a[3].bounds))

false_color_image(brightness_temperatures) ==
  LET a == channel_args(brightness_temperatures)
      r == normalize_range(a[1].data, a[1].bounds)
      g == normalize_range(a[2].data, a[2].bounds)
      b == normalize_range(a[3].data, a[3].bounds)
  IN  ClipImage(Stack(r, g, b), 0, 1)

(***************************************************************************)
(* The false-colour cell of the raw-GOES notebook.                         *)
(***************************************************************************)
goes_T11_BOUNDS == <<243, 303>>
goes_CLOUD_TOP_TDIFF_BOUNDS == <<-4, 5>>
goes_TDIFF_BOUNDS == <<-4, 2>>

goes_normalize_range(data, bounds) ==
  [i \in DOMAIN data |->
     FDiv(FSub(data[i], Fin(bounds[1])), Fin(bounds[2] - bounds[1]))]

\* A faulty variant: the g channel subtracts in the opposite order.
goes_channel_args_swapped(bt) ==
  << [data |-> ArrSub(bt[15], bt[14]), bounds |-> goes_TDIFF_BOUNDS],
     [data |-> ArrSub(bt[11], bt[14]), bounds |-> goes_CLOUD_TOP_TDIFF_BOUNDS],
     [data |-> bt[14], bounds |-> goes_T11_BOUNDS] >>

goes_channel_args(bt) ==
  << [data |-> ArrSub(bt[15], bt[14]), bounds |-> goes_TDIFF_BOUNDS],
     [data |-> ArrSub(bt[14], bt[11]), bounds |-> goes_CLOUD_TOP_TDIFF_BOUNDS],
     [data |-> bt[14], bounds |-> goes_T11_BOUNDS] >>

goes_false_color_image(brightness_temperatures) ==
  LET a == goes_channel_args(brightness_temperatures)
      r == goes_normalize_range(a[1].data, a[1].bounds)
      g == goes_normalize_range(a[2].data, a[2].bounds)
      b == goes_normalize_range(a[3].data, a[3].bounds)
  IN  ClipImage(Stack(r, g, b), 0, 1)

(***************************************************************************)
(* State.                                                                  *)
(***************************************************************************)
VARIABLES
  \* Calls of the two pure functions on drawn inputs.
  fn_pc,        \* which function is called next, and by which notebook
  arg_data,     \* normalize_range's data argument
  arg_bounds,   \* normalize_range's bounds argument
  arg_tf,       \* false_color_image's argument in the TFRecord notebook
  arg_goes,     \* the same brightness temperatures under the raw-GOES keys
  ret_tf,       \* what the TFRecord notebook's function returned
  ret_goes,     \* what the raw-GOES notebook's function returned
  calls_tf,     \* the normalize_range calls made by the TFRecord false_color_image
  calls_goes,   \* the normalize_range calls made by the raw-GOES false_color_image
  \* A run of one notebook, top to bottom.
  nb,           \* the notebook that runs: "goes", "tf", or "none"
  \* The raw-GOES notebook.
  g_pc,         \* the statement the run is at
  scan,         \* per band, the brightness temperatures its file converts to
  remaining,    \* the bands paths.items() has yet to yield
  opens,        \* per band, how often fs.open was called on its path
  open_files,   \* the bands whose file is open (inside a with block)
  brightness_temperatures,  \* the dict built by the loading loop
  assigned,     \* per band, how often its key of the dict was assigned
  failed_at,    \* the band whose open or read raised (0: none)
  fci,          \* the false-colour image (<<>>: not computed)
  fci_evals,    \* how often false_color_image was evaluated
  located,      \* whether (col, row) of the location has been computed
  \* The display loop of the TFRecord notebook.
  t_pc,         \* the statement the run is at
  dataset,      \* the parsed examples, in dataset order
  cursor,       \* how many records the iterator has yielded
  count,        \* the loop's counter
  plotted       \* the figures shown, in order

fn_vars == <<fn_pc, arg_data, arg_bounds, arg_tf, arg_goes, ret_tf, ret_goes,
             calls_tf, calls_goes>>
goes_vars == <<g_pc, scan, remaining, opens, open_files, brightness_temperatures,
               assigned, failed_at, fci, fci_evals, located>>
tf_vars == <<t_pc, dataset, cursor, count, plotted>>
vars == <<fn_vars, nb, goes_vars, tf_vars>>

(***************************************************************************)
(* Inputs of the pure functions.                                           *)
(***************************************************************************)
TFBands == {"cloud_top", "data_11um", "data_12um"}
GoesBands == {11, 14, 15}

\* Brightness temperatures (K): below, at, inside and above _T11_BOUNDS, with
\* differences below, inside, at and above both difference bounds; NaN and inf.
Temperatures == {Fin(240), Fin(243), Fin(245), Fin(310), NaN, PosInf}

\* Bounds pairs: the three of the notebooks, two more with lo < hi, and two
\* degenerate ones (lo = hi, lo > hi).
BoundsPairs == {_T11_BOUNDS, _CLOUD_TOP_TDIFF_BOUNDS, _TDIFF_BOUNDS,
                <<0, 1>>, <<-5, -2>>, <<5, 5>>, <<2, -4>>}

\* Data for normalize_range: every lo and hi of BoundsPairs, values below,
\* between and above them, and the specials.
NrValues == {Fin(-6), Fin(-5), Fin(-4), Fin(-2), Fin(0), Fin(1), Fin(2), Fin(5),
             Fin(7), Fin(240), Fin(243), Fin(250), Fin(303), Fin(310),
             NaN, PosInf, NegInf}

ArraysOver(S) == UNION {[1..n -> S] : n \in 1..MaxPix}
BandMaps(K, S) == UNION {[K -> [1..n -> S]] : n \in 1..MaxPix}

\* The band renaming between the notebooks: 11 is cloud_top, 14 is data_11um,
\* 15 is data_12um.
GoesKeys(f) == (11 :> f["cloud_top"]) @@ (14 :> f["data_11um"]) @@ (15 :> f["data_12um"])

NoBands == [b \in TFBands |-> <<>>]
EmptyDict == [b \in {} |-> <<>>]

\* No notebook runs.
RunIdle ==
  /\ nb = "none"
  /\ g_pc = "off"
  /\ scan = GoesKeys(NoBands)
  /\ remaining = <<>>
  /\ opens = [b \in GoesBands |-> 0]
  /\ open_files = {}
  /\ brightness_temperatures = EmptyDict
  /\ assigned = [b \in GoesBands |-> 0]
  /\ failed_at = 0
  /\ fci = <<>>
  /\ fci_evals = 0
  /\ located = FALSE
  /\ t_pc = "off"
  /\ dataset = <<>>
  /\ cursor = 0
  /\ count = 0
  /\ plotted = <<>>

FnInit ==
  /\ RunIdle
  /\ ret_tf = <<>>
  /\ ret_goes = <<>>
  /\ calls_tf = <<>>
  /\ calls_goes = <<>>
  /\ \/ /\ fn_pc = "nr_tf"
        /\ arg_data \in ArraysOver(NrValues)
        /\ arg_bounds \in BoundsPairs
        /\ arg_tf = NoBands
        /\ arg_goes = GoesKeys(NoBands)
     \/ /\ fn_pc = "fci_tf"
        /\ arg_data = <<>>
        /\ arg_bounds = <<0, 1>>
        /\ arg_tf \in BandMaps(TFBands, Temperatures)
        /\ arg_goes = GoesKeys(arg_tf)

\* normalize_range(arg_data, arg_bounds) in the TFRecord notebook.
CallNormalizeRangeTF ==
  /\ fn_pc = "nr_tf"
  /\ ret_tf' = normalize_range(arg_data, arg_bounds)
  /\ fn_pc' = "nr_goes"
  /\ UNCHANGED <<arg_data, arg_bounds, arg_tf, arg_goes, ret_goes, calls_tf, calls_goes,
               nb, goes_vars, tf_vars>>

\* normalize_range(arg_data, arg_bounds) in the raw-GOES notebook.
CallNormalizeRangeGoes ==
  /\ fn_pc = "nr_goes"
  /\ ret_goes' = goes_normalize_range(arg_data, arg_bounds)
  /\ fn_pc' = "nr_done"
  /\ UNCHANGED <<arg_data, arg_bounds, arg_tf, arg_goes, ret_tf, calls_tf, calls_goes,
               nb, goes_vars, tf_vars>>

\* false_color_image(arg_tf) in the TFRecord notebook.
CallFalseColorImageTF ==
  /\ fn_pc = "fci_tf"
  /\ calls_tf' = channel_args(arg_tf)
  /\ ret_tf' = false_color_image(arg_tf)
  /\ fn_pc' = "fci_goes"
  /\ UNCHANGED <<arg_data, arg_bounds, arg_tf, arg_goes, ret_goes, calls_goes,
               nb, goes_vars, tf_vars>>

\* false_color_image(arg_goes) in the raw-GOES notebook.
CallFalseColorImageGoes ==
  /\ fn_pc = "fci_goes"
  /\ calls_goes' = goes_channel_args(arg_goes)
  /\ ret_goes' = goes_false_color_image(arg_goes)
  /\ fn_pc' = "fci_done"
  /\ UNCHANGED <<arg_data, arg_bounds, arg_tf, arg_goes, ret_tf, calls_tf,
               nb, goes_vars, tf_vars>>

FnNext ==
  \/ CallNormalizeRangeTF
  \/ CallNormalizeRangeGoes
  \/ CallFalseColorImageTF
  \/ CallFalseColorImageGoes

SpecFn == FnInit /\ [][FnNext]_vars

(***************************************************************************)
(* The raw-GOES notebook, run top to bottom from the loading loop on.  An  *)
(* uncaught exception ends the cell and with it the run.                   *)
(***************************************************************************)
\* The keys of paths, in the order paths.items() yields them.
paths == <<11, 14, 15>>

\* What a band's file can convert to (two pixels): the radiance-to-temperature
\* formula of the loop body is not computed, its result is drawn from this set.
GoesArrays == {<<Fin(240), Fin(303)>>, <<Fin(245), NaN>>}

GoesInit ==
  /\ nb = "goes"
  /\ g_pc = "loop"
  /\ scan \in [GoesBands -> GoesArrays]
  /\ remaining = paths
  /\ opens = [b \in GoesBands |-> 0]
  /\ open_files = {}
  /\ brightness_temperatures = EmptyDict
  /\ assigned = [b \in GoesBands |-> 0]
  /\ failed_at = 0
  /\ fci = <<>>
  /\ fci_evals = 0
  /\ located = FALSE

goes_frame == <<fn_vars, nb, tf_vars, scan>>

\* with fs.open(path, 'rb') as f: the open succeeds.
OpenBandOk ==
  /\ g_pc = "loop"
  /\ remaining # <<>>
  /\ LET band_id == Head(remaining)
     IN  /\ opens' = [opens EXCEPT ![band_id] = @ + 1]
         /\ open_files' = open_files \cup {band_id}
  /\ g_pc' = "opened"
  /\ UNCHANGED <<goes_frame, remaining, brightness_temperatures, assigned,
                 failed_at, fci, fci_evals, located>>

\* A faulty variant: a failed open is tried again instead of raising.
OpenBandFails_Retry ==
  /\ g_pc = "loop"
  /\ remaining # <<>>
  /\ opens[Head(remaining)] < 2
  /\ opens' = [opens EXCEPT ![Head(remaining)] = @ + 1]
  /\ UNCHANGED <<goes_frame, g_pc, remaining, open_files, brightness_temperatures,
                 assigned, failed_at, fci, fci_evals, located>>

\* fs.open raises (a missing file, no access): nothing catches it.
OpenBandFails ==
  /\ g_pc = "loop"
  /\ remaining # <<>>
  /\ opens' = [opens EXCEPT ![Head(remaining)] = @ + 1]
  /\ failed_at' = Head(remaining)
  /\ g_pc' = "load_failed"
  /\ UNCHANGED <<goes_frame, remaining, open_files, brightness_temperatures,
                 assigned, fci, fci_evals, located>>

\* The body of the with block: the dataset is read and converted, the key is
\* assigned, the file is closed and the loop goes on to the next band.
ConvertBand ==
  /\ g_pc = "opened"
  /\ LET band_id == Head(remaining)
     IN  /\ brightness_temperatures' = (band_id :> scan[band_id]) @@ brightness_temperatures
         /\ assigned' = [assigned EXCEPT ![band_id] = @ + 1]
         /\ open_files' = open_files \ {band_id}
  /\ remaining' = Tail(remaining)
  /\ g_pc' = IF Tail(remaining) = <<>> THEN "fci_cell" ELSE "loop"
  /\ UNCHANGED <<goes_frame, opens, failed_at, fci, fci_evals, located>>

\* xarray.open_dataset or the conversion raises (a malformed file, a missing
\* variable): the with block closes the file and the exception goes on.
ReadBandFails ==
  /\ g_pc = "opened"
  /\ open_files' = open_files \ {Head(remaining)}
  /\ failed_at' = Head(remaining)
  /\ g_pc' = "load_failed"
  /\ UNCHANGED <<goes_frame, remaining, opens, brightness_temperatures, assigned,
                 fci, fci_evals, located>>

\* A faulty variant: band 14 is shifted in place while the image is computed.
FalseColorCell_InPlace ==
  /\ g_pc = "fci_cell"
  /\ fci' = goes_false_color_image(brightness_temperatures)
  /\ brightness_temperatures' =
       [brightness_temperatures EXCEPT
          ![14] = [i \in DOMAIN @ |-> FSub(@[i], Fin(goes_T11_BOUNDS[1]))]]
  /\ fci_evals' = fci_evals + 1
  /\ g_pc' = "show_cell"
  /\ UNCHANGED <<goes_frame, remaining, opens, open_files, assigned,
                 failed_at, located>>

\* fci = false_color_image(brightness_temperatures)
FalseColorCell ==
  /\ g_pc = "fci_cell"
  /\ fci' = goes_false_color_image(brightness_temperatures)
  /\ fci_evals' = fci_evals + 1
  /\ g_pc' = "show_cell"
  /\ UNCHANGED <<goes_frame, remaining, opens, open_files, brightness_temperatures,
                 assigned, failed_at, located>>

\* plt.imshow(fci), then the cell that sets NYC_LAT and NYC_LNG.
ShowCell ==
  /\ g_pc = "show_cell"
  /\ g_pc' = "proj_cell"
  /\ UNCHANGED <<goes_frame, remaining, opens, open_files, brightness_temperatures,
                 assigned, failed_at, fci, fci_evals, located>>

\* with fs.open(paths[11], 'rb') as f: band 11's file is opened once more.
ProjOpenOk ==
  /\ g_pc = "proj_cell"
  /\ opens' = [opens EXCEPT ![11] = @ + 1]
  /\ open_files' = open_files \cup {11}
  /\ g_pc' = "proj_opened"
  /\ UNCHANGED <<goes_frame, remaining, brightness_temperatures, assigned,
                 failed_at, fci, fci_evals, located>>

ProjOpenFails ==
  /\ g_pc = "proj_cell"
  /\ opens' = [opens EXCEPT ![11] = @ + 1]
  /\ failed_at' = 11
  /\ g_pc' = "proj_failed"
  /\ UNCHANGED <<goes_frame, remaining, open_files, brightness_temperatures,
                 assigned, fci, fci_evals, located>>

\* The area definition is built and lonlat2colrow gives (col, row).
ProjLocate ==
  /\ g_pc = "proj_opened"
  /\ open_files' = open_files \ {11}
  /\ located' = TRUE
  /\ g_pc' = "marker_cell"
  /\ UNCHANGED <<goes_frame, remaining, opens, brightness_temperatures, assigned,
                 failed_at, fci, fci_evals>>

ProjLocateFails ==
  /\ g_pc = "proj_opened"
  /\ open_files' = open_files \ {11}
  /\ failed_at' = 11
  /\ g_pc' = "proj_failed"
  /\ UNCHANGED <<goes_frame, remaining, opens, brightness_temperatures, assigned,
                 fci, fci_evals, located>>

\* plt.plot(col, row, ...); plt.imshow(fci); plt.show()
MarkerCell ==
  /\ g_pc = "marker_cell"
  /\ g_pc' = "done"
  /\ UNCHANGED <<goes_frame, remaining, opens, open_files, brightness_temperatures,
                 assigned, failed_at, fci, fci_evals, located>>

(***************************************************************************)
(* The display loop of the TFRecord notebook.                              *)
(***************************************************************************)
\* count >= 10
PLOT_LIMIT == 10

RECURSIVE SeqSum(_)
SeqSum(q) == IF q = <<>> THEN 0 ELSE Head(q) + SeqSum(Tail(q))

\* Parsed examples: human_pixel_masks over two pixels, the three bands over two
\* times, n_times_before the index of the labelled time.
NoContrail ==
  [human_pixel_masks |-> <<0, 0>>, n_times_before |-> 0,
   cloud_top |-> <<Fin(240), Fin(245)>>,
   data_11um |-> <<Fin(243), Fin(250)>>,
   data_12um |-> <<Fin(245), NaN>>]
Contrail ==
  [human_pixel_masks |-> <<0, 1>>, n_times_before |-> 1,
   cloud_top |-> <<Fin(303), Fin(243)>>,
   data_11um |-> <<Fin(310), Fin(245)>>,
   data_12um |-> <<Fin(303), Fin(243)>>]
ExampleKinds == {NoContrail, Contrail}

\* The finite datasets of the model.
Datasets == UNION {[1..n -> ExampleKinds] : n \in 0..MaxRecords}

TFInit ==
  /\ nb = "tf"
  /\ t_pc = "dataset_cell"
  /\ dataset = <<>>
  /\ cursor = 0
  /\ count = 0
  /\ plotted = <<>>

tf_frame == <<fn_vars, nb, goes_vars, dataset>>

\* dataset = tf.data.TFRecordDataset(...).map(parse_example), then count = 0.
DatasetCell ==
  /\ t_pc = "dataset_cell"
  /\ dataset' \in Datasets
  /\ count' = 0
  /\ t_pc' = "loop"
  /\ UNCHANGED <<fn_vars, nb, goes_vars, cursor, plotted>>

\* A faulty variant: only the first mask pixel is looked at.
SkipExample_first(features) == features.human_pixel_masks[1] = 0

\* if features['human_pixel_masks'].sum() == 0: continue
SkipExample(features) == SeqSum(features.human_pixel_masks) = 0

\* The figure of one example: the false-colour image at time n_times_before
\* beside the mask.
Figure(idx, features) ==
  [idx   |-> idx,
   image |-> false_color_image(features)[features.n_times_before + 1],
   mask  |-> features.human_pixel_masks]

\* for features in dataset.as_numpy_iterator(): the iterator has a next record.
HasNext == t_pc = "loop" /\ cursor < Len(dataset)

\* An iteration on an example without contrails: it is skipped.
LoopSkip ==
  /\ HasNext
  /\ SkipExample(dataset[cursor + 1])
  /\ cursor' = cursor + 1
  /\ UNCHANGED <<tf_frame, t_pc, count, plotted>>

\* A faulty variant: the loop does not break at the limit.
LoopPlot_NoBreak ==
  /\ HasNext
  /\ ~SkipExample(dataset[cursor + 1])
  /\ cursor' = cursor + 1
  /\ plotted' = Append(plotted, Figure(cursor + 1, dataset[cursor + 1]))
  /\ count' = count + 1
  /\ UNCHANGED <<tf_frame, t_pc>>

\* An iteration on an example with contrails: it is plotted and counted, and the
\* loop breaks at the limit.
LoopPlot ==
  /\ HasNext
  /\ ~SkipExample(dataset[cursor + 1])
  /\ cursor' = cursor + 1
  /\ plotted' = Append(plotted, Figure(cursor + 1, dataset[cursor + 1]))
  /\ count' = count + 1
  /\ t_pc' = IF count + 1 >= PLOT_LIMIT THEN "done" ELSE "loop"
  /\ UNCHANGED tf_frame

\* The iterator is exhausted: the for loop ends.
LoopExhausted ==
  /\ t_pc = "loop"
  /\ cursor = Len(dataset)
  /\ t_pc' = "done"
  /\ UNCHANGED <<tf_frame, cursor, count, plotted>>

(***************************************************************************)
(* A run of either notebook.                                               *)
(***************************************************************************)
FnIdle ==
  /\ fn_pc = "off"
  /\ arg_data = <<>>
  /\ arg_bounds = <<0, 1>>
  /\ arg_tf = NoBands
  /\ arg_goes = GoesKeys(NoBands)
  /\ ret_tf = <<>>
  /\ ret_goes = <<>>
  /\ calls_tf = <<>>
  /\ calls_goes = <<>>

Init ==
  /\ FnIdle
  /\ \/ /\ GoesInit
        /\ t_pc = "off"
        /\ dataset = <<>>
        /\ cursor = 0
        /\ count = 0
        /\ plotted = <<>>
     \/ /\ TFInit
        /\ g_pc = "off"
        /\ scan = GoesKeys(NoBands)
        /\ remaining = <<>>
        /\ opens = [b \in GoesBands |-> 0]
        /\ open_files = {}
        /\ brightness_temperatures = EmptyDict
        /\ assigned = [b \in GoesBands |-> 0]
        /\ failed_at = 0
        /\ fci = <<>>
        /\ fci_evals = 0
        /\ located = FALSE

Next ==
  \/ OpenBandOk
  \/ OpenBandFails
  \/ ConvertBand
  \/ ReadBandFails
  \/ FalseColorCell
  \/ ShowCell
  \/ ProjOpenOk
  \/ ProjOpenFails
  \/ ProjLocate
  \/ ProjLocateFails
  \/ MarkerCell
  \/ DatasetCell
  \/ LoopSkip
  \/ LoopPlot
  \/ LoopExhausted

Spec == Init /\ [][Next]_vars

(***************************************************************************)
(* Properties.                                                             *)
(***************************************************************************)
\* x is a number with 0 <= x <= 1.
InUnit(x) == x.k = "fin" /\ 0 <= x.n /\ x.n <= x.d

\* x + y on floats.
FAdd(x, y) ==
  IF x.k = "nan" \/ y.k = "nan" THEN NaN
  ELSE IF x.k = "inf" /\ y.k = "inf" THEN (IF x.n = y.n THEN x ELSE NaN)
  ELSE IF x.k = "inf" THEN x
  ELSE IF y.k = "inf" THEN y
  ELSE Rat(x.n * y.d + y.n * x.d, x.d * y.d)

Min(a, b) == IF a <= b THEN a ELSE b

\* The elements of a finite set of integers in increasing order.
RECURSIVE Ascending(_)
Ascending(S) ==
  IF S = {} THEN <<>>
  ELSE LET m == CHOOSE x \in S : \A y \in S : x <= y
       IN  <<m>> \o Ascending(S \ {m})

\* The indices of the examples of ds with a non-zero human_pixel_masks sum.
ContrailIdx(ds) == {i \in 1..Len(ds) : SeqSum(ds[i].human_pixel_masks) # 0}

\* C1: normalize_range maps the lower bound of a bounds pair with lo < hi to 0
\* and its upper bound to 1, in both notebooks, and so for the three pairs the
\* notebooks define.
C1_BoundsMapToZeroAndOne ==
  /\ (fn_pc = "nr_done" /\ arg_bounds[1] < arg_bounds[2]) =>
       \A i \in DOMAIN arg_data :
         /\ arg_data[i] = Fin(arg_bounds[1]) =>
              ret_tf[i] = Fin(0) /\ ret_goes[i] = Fin(0)
         /\ arg_data[i] = Fin(arg_bounds[2]) =>
              ret_tf[i] = Fin(1) /\ ret_goes[i] = Fin(1)
  /\ \A bounds \in {_T11_BOUNDS, _CLOUD_TOP_TDIFF_BOUNDS, _TDIFF_BOUNDS} :
       normalize_range(<<Fin(bounds[1]), Fin(bounds[2])>>, bounds) = <<Fin(0), Fin(1)>>
  /\ \A bounds \in {goes_T11_BOUNDS, goes_CLOUD_TOP_TDIFF_BOUNDS, goes_TDIFF_BOUNDS} :
       goes_normalize_range(<<Fin(bounds[1]), Fin(bounds[2])>>, bounds) = <<Fin(0), Fin(1)>>

\* Both notebooks have normalised the upper bound 303 of _T11_BOUNDS.
C1_Witness ==
  /\ fn_pc = "nr_done"
  /\ arg_bounds = _T11_BOUNDS
  /\ arg_data = <<Fin(303)>>
  /\ ret_tf = <<Fin(1)>>
  /\ ret_goes = <<Fin(1)>>

\* C2: normalize_range clips: for bounds with lo < hi its result lies in [0, 1],
\* is 0 for data below lo and 1 for data above hi (stated here for data that is
\* a finite number).
C2_NormalizeRangeClips ==
  (fn_pc = "nr_done" /\ arg_bounds[1] < arg_bounds[2]) =>
    \A i \in DOMAIN arg_data :
      arg_data[i].k = "fin" =>
        /\ InUnit(ret_tf[i]) /\ InUnit(ret_goes[i])
        /\ FLt(arg_data[i], Fin(arg_bounds[1])) =>
             ret_tf[i] = Fin(0) /\ ret_goes[i] = Fin(0)
        /\ FLt(Fin(arg_bounds[2]), arg_data[i]) =>
             ret_tf[i] = Fin(1) /\ ret_goes[i] = Fin(1)

\* The band values of pixel i that a false_color_image call read.
PixelBands(i) == {arg_tf[b][i] : b \in TFBands}

\* C3 as stated: every element of every channel of the image false_color_image
\* returns is >= 0 and <= 1, for every input, in both notebooks.
C3_AlwaysInUnitRange ==
  fn_pc = "fci_done" =>
    \A i \in DOMAIN ret_tf : \A c \in 1..3 :
      InUnit(ret_tf[i][c]) /\ InUnit(ret_goes[i][c])

\* C3 amended: every element of every channel is in [0, 1] or is NaN; it is in
\* [0, 1] whenever the band values of its pixel are finite numbers, and it is
\* NaN exactly when the normalised value before clipping is NaN.
C3_InUnitRangeOrNaN ==
  fn_pc = "fci_done" =>
    /\ DOMAIN ret_tf = DOMAIN arg_tf["data_11um"]
    /\ DOMAIN ret_goes = DOMAIN arg_goes[14]
    /\ \A i \in DOMAIN ret_tf : \A c \in 1..3 :
         /\ InUnit(ret_tf[i][c]) \/ ret_tf[i][c] = NaN
         /\ InUnit(ret_goes[i][c]) \/ ret_goes[i][c] = NaN
         /\ (\A v \in PixelBands(i) : v.k = "fin") =>
              InUnit(ret_tf[i][c]) /\ InUnit(ret_goes[i][c])
         /\ ret_tf[i][c] = NaN <=>
              normalize_range(calls_tf[c].data, calls_tf[c].bounds)[i] = NaN
         /\ ret_goes[i][c] = NaN <=>
              goes_normalize_range(calls_goes[c].data, calls_goes[c].bounds)[i] = NaN

\* A pixel whose red channel is NaN (band 12um is NaN), whose green channel was
\* clipped to 1 and whose blue channel lies strictly inside [0, 1].
C3_Witness ==
  /\ fn_pc = "fci_done"
  /\ arg_tf = [cloud_top |-> <<Fin(240)>>, data_11um |-> <<Fin(245)>>, data_12um |-> <<NaN>>]
  /\ ret_tf[1] = <<NaN, Fin(1), Rat(1, 30)>>
  /\ ret_goes[1] = <<NaN, Fin(1), Rat(1, 30)>>

\* C4 as stated: each of the three channels is normalize_range applied to the
\* difference of two distinct bands (stated here for inputs whose band values
\* are all finite numbers).
C4_EveryChannelIsABandDifference ==
  (fn_pc = "fci_done" /\ \A i \in DOMAIN ret_tf : \A v \in PixelBands(i) : v.k = "fin") =>
    \A c \in 1..3 :
      /\ \E b1, b2 \in TFBands :
           b1 # b2 /\ calls_tf[c].data = ArrSub(arg_tf[b1], arg_tf[b2])
      /\ \E b1, b2 \in GoesBands :
           b1 # b2 /\ calls_goes[c].data = ArrSub(arg_goes[b1], arg_goes[b2])

\* C4 amended: the r and g channels are normalize_range applied to the
\* difference of two distinct bands (12um - 11um with _TDIFF_BOUNDS, 11um -
\* cloud_top with _CLOUD_TOP_TDIFF_BOUNDS); the b channel is normalize_range
\* applied to the single band 11um with _T11_BOUNDS; the stacked channels are
\* then clipped to [0, 1].
C4_TwoDifferencesAndOneBand ==
  fn_pc = "fci_done" =>
    /\ calls_tf[1] = [data |-> ArrSub(arg_tf["data_12um"], arg_tf["data_11um"]),
                      bounds |-> _TDIFF_BOUNDS]
    /\ calls_tf[2] = [data |-> ArrSub(arg_tf["data_11um"], arg_tf["cloud_top"]),
                      bounds |-> _CLOUD_TOP_TDIFF_BOUNDS]
    /\ calls_tf[3] = [data |-> arg_tf["data_11um"], bounds |-> _T11_BOUNDS]
    /\ calls_goes[1] = [data |-> ArrSub(arg_goes[15], arg_goes[14]),
                        bounds |-> goes_TDIFF_BOUNDS]
    /\ calls_goes[2] = [data |-> ArrSub(arg_goes[14], arg_goes[11]),
                        bounds |-> goes_CLOUD_TOP_TDIFF_BOUNDS]
    /\ calls_goes[3] = [data |-> arg_goes[14], bounds |-> goes_T11_BOUNDS]
    /\ \A i \in DOMAIN ret_tf : \A c \in 1..3 :
         /\ ret_tf[i][c] =
              Clip(normalize_range(calls_tf[c].data, calls_tf[c].bounds)[i], 0, 1)
         /\ ret_goes[i][c] =
              Clip(goes_normalize_range(calls_goes[c].data, calls_goes[c].bounds)[i], 0, 1)

\* An image whose b channel was computed from band 11um, which is no difference
\* of two distinct bands of the input.
C4_Witness ==
  /\ fn_pc = "fci_done"
  /\ calls_tf[3].data = arg_tf["data_11um"]
  /\ calls_goes[3].data = arg_goes[14]
  /\ \A b1, b2 \in TFBands :
       b1 # b2 => calls_tf[3].data # ArrSub(arg_tf[b1], arg_tf[b2])
  /\ \A b1, b2 \in GoesBands :
       b1 # b2 => calls_goes[3].data # ArrSub(arg_goes[b1], arg_goes[b2])

\* C9: per pixel the TFRecord false_color_image returns (r, g, b) with
\* r = clip((T12 - T11 + 4) / 6, 0, 1), g = clip((T11 - Tcloud_top + 4) / 9, 0, 1),
\* b = clip((T11 - 243) / 60, 0, 1), in that order; no divisor is zero.
C9_AshFormula ==
  fn_pc \in {"fci_goes", "fci_done"} =>
    /\ DOMAIN ret_tf = DOMAIN arg_tf["data_11um"]
    /\ \A i \in DOMAIN ret_tf :
         LET T12 == arg_tf["data_12um"][i]
             T11 == arg_tf["data_11um"][i]
             Tcloud_top == arg_tf["cloud_top"][i]
         IN  ret_tf[i] =
               << Clip(FDiv(FAdd(FSub(T12, T11), Fin(4)), Fin(6)), 0, 1),
                  Clip(FDiv(FAdd(FSub(T11, Tcloud_top), Fin(4)), Fin(9)), 0, 1),
                  Clip(FDiv(FSub(T11, Fin(243)), Fin(60)), 0, 1) >>
    /\ [c \in 1..3 |-> calls_tf[c].bounds[2] - calls_tf[c].bounds[1]] = <<6, 9, 60>>

\* The pixel (cloud_top, 11um, 12um) = (240, 245, 243) gives (1/3, 1, 1/30).
C9_Witness ==
  /\ fn_pc = "fci_done"
  /\ arg_tf = [cloud_top |-> <<Fin(240)>>, data_11um |-> <<Fin(245)>>, data_12um |-> <<Fin(243)>>]
  /\ ret_tf = << <<Rat(1, 3), Fin(1), Rat(1, 30)>> >>

\* C10: on the same brightness temperatures under the renaming 15 <-> data_12um,
\* 14 <-> data_11um, 11 <-> cloud_top the raw-GOES false_color_image returns the
\* array the TFRecord one returns, and the two use the same three bounds.
C10_NotebooksAgree ==
  /\ fn_pc = "fci_done" =>
       /\ arg_goes = GoesKeys(arg_tf)
       /\ ret_goes = ret_tf
       /\ [c \in 1..3 |-> calls_goes[c].bounds] = [c \in 1..3 |-> calls_tf[c].bounds]
  /\ goes_T11_BOUNDS = _T11_BOUNDS
  /\ goes_CLOUD_TOP_TDIFF_BOUNDS = _CLOUD_TOP_TDIFF_BOUNDS
  /\ goes_TDIFF_BOUNDS = _TDIFF_BOUNDS

\* Both notebooks returned (0, 2/3, 1/30) for the pixel (243, 245, 240).
C10_Witness ==
  /\ fn_pc = "fci_done"
  /\ arg_goes = (11 :> <<Fin(243)>>) @@ (14 :> <<Fin(245)>>) @@ (15 :> <<Fin(240)>>)
  /\ ret_goes = << <<Fin(0), Rat(2, 3), Rat(1, 30)>> >>
  /\ ret_tf = ret_goes

\* The bands paths.items() yields before band b, and after it.
BandsBefore(b) == {paths[j] : j \in {j \in DOMAIN paths : \E k \in DOMAIN paths : j < k /\ paths[k] = b}}
BandsAfter(b) == {paths[j] : j \in {j \in DOMAIN paths : \E k \in DOMAIN paths : k < j /\ paths[k] = b}}

\* The run has ended in the loading loop, at band failed_at.
LoadFailureState ==
  /\ failed_at \in GoesBands
  /\ open_files = {}
  /\ \A b \in GoesBands : opens[b] <= 1
  /\ opens[failed_at] = 1
  /\ \A b \in BandsAfter(failed_at) : opens[b] = 0
  /\ DOMAIN brightness_temperatures = BandsBefore(failed_at)
  /\ \A b \in BandsBefore(failed_at) :
       opens[b] = 1 /\ brightness_temperatures[b] = scan[b]
  /\ fci_evals = 0
  /\ fci = <<>>
  /\ ~located

\* C5: in the raw-GOES notebook a failure to open or read a band's file in the
\* loading loop ends the run with no retry: each path has been opened at most
\* once, no later band has been opened, brightness_temperatures holds exactly
\* the bands read before the failure, false_color_image has not been and is
\* never evaluated, and nothing happens afterwards.
C5_LoadFailureEndsRun ==
  /\ [](g_pc = "load_failed" => LoadFailureState)
  /\ [][g_pc = "load_failed" => UNCHANGED vars]_vars

\* Band 14's file failed after band 11 was loaded.
C5_Witness ==
  /\ g_pc = "load_failed"
  /\ failed_at = 14
  /\ DOMAIN brightness_temperatures = {11}
  /\ opens = (11 :> 1) @@ (14 :> 1) @@ (15 :> 0)
  /\ fci_evals = 0

\* The statements after the loading loop of the raw-GOES notebook.
AfterLoop == {"fci_cell", "show_cell", "proj_cell", "proj_opened", "proj_failed",
              "marker_cell", "done"}

\* C6: the per-band arrays are derived once and then only read: each key of
\* brightness_temperatures is assigned at most once, a key is in the dict iff it
\* was assigned once, all three were assigned once when the loop has ended, only
\* the body of the loading loop changes the dict (false_color_image and the
\* cells after it leave it as it is), and the TFRecord loop, which hands each
\* example to false_color_image, leaves the examples as they are.
C6_DerivedOnceThenReadOnly ==
  /\ [](\A b \in GoesBands :
          /\ assigned[b] <= 1
          /\ b \in DOMAIN brightness_temperatures <=> assigned[b] = 1)
  /\ [](g_pc \in AfterLoop =>
          /\ \A b \in GoesBands : assigned[b] = 1
          /\ brightness_temperatures = scan)
  /\ [][g_pc # "opened" => brightness_temperatures' = brightness_temperatures]_vars
  /\ [][t_pc # "dataset_cell" => dataset' = dataset]_vars

\* false_color_image has been evaluated on the three loaded bands.
C6_Witness ==
  /\ g_pc = "show_cell"
  /\ fci_evals = 1
  /\ fci = goes_false_color_image(scan)
  /\ brightness_temperatures = scan
  /\ \A b \in GoesBands : assigned[b] = 1

\* C7: in the TFRecord display loop every plotted example has a non-zero
\* human_pixel_masks sum; an example with sum 0 is neither plotted nor counted;
\* after any prefix of the dataset the number of plotted examples is count, which
\* is the number of examples with non-zero sum seen so far and is at most 10.
C7_OnlyContrailsPlotted ==
  nb = "tf" =>
    /\ \A k \in DOMAIN plotted :
         /\ plotted[k].idx \in 1..cursor
         /\ SeqSum(dataset[plotted[k].idx].human_pixel_masks) # 0
    /\ \A i \in 1..cursor :
         SeqSum(dataset[i].human_pixel_masks) = 0 =>
           \A k \in DOMAIN plotted : plotted[k].idx # i
    /\ Len(plotted) = count
    /\ count = Cardinality(ContrailIdx(SubSeq(dataset, 1, cursor)))
    /\ count <= PLOT_LIMIT

\* Ten examples were plotted out of eleven consumed: one was skipped.
C7_Witness ==
  /\ nb = "tf"
  /\ count = PLOT_LIMIT
  /\ Len(plotted) = PLOT_LIMIT
  /\ cursor = PLOT_LIMIT + 1
  /\ \E i \in 1..cursor : SeqSum(dataset[i].human_pixel_masks) = 0

\* What the display loop has done when it has ended.
DisplayLoopResult ==
  LET hits == Ascending(ContrailIdx(dataset))
      n == Min(PLOT_LIMIT, Len(hits))
  IN  /\ Len(plotted) = n
      /\ count = n
      /\ \A k \in 1..n : plotted[k] = Figure(hits[k], dataset[hits[k]])
      /\ cursor = IF Len(hits) >= PLOT_LIMIT THEN hits[PLOT_LIMIT] ELSE Len(dataset)

\* C8: on every finite dataset the display loop ends: while it runs it has a
\* step to take, and every step either consumes one more of the finitely many
\* records or ends the loop; when it has ended it has plotted the first
\* min(10, number of examples with non-zero sum) such examples in dataset
\* order, and it has consumed no record after the 10th plotted one (all records
\* when fewer than 10 were plotted).
C8_DisplayLoopTerminates ==
  /\ [](nb = "tf" /\ t_pc = "done" => DisplayLoopResult)
  /\ [](nb = "tf" /\ t_pc = "loop" =>
          /\ cursor <= Len(dataset)
          /\ \/ ENABLED LoopExhausted
             \/ ENABLED LoopSkip
             \/ HasNext /\ ~SkipExample(dataset[cursor + 1]))
  /\ [][nb = "tf" /\ t_pc = "loop" =>
          \/ cursor' = cursor + 1 /\ t_pc' = "loop" /\ count < PLOT_LIMIT
          \/ t_pc' = "done"]_vars

\* The loop broke at the 10th plot with a record left unread.
C8_Witness ==
  /\ nb = "tf"
  /\ t_pc = "done"
  /\ count = PLOT_LIMIT
  /\ cursor < Len(dataset)
  /\ DisplayLoopResult

====
